---- MODULE Spec2Model ----
(***************************************************************************)
(* Model of the use-styled library as this documentation repository        *)
(* describes it: useStyled's variant resolution and prop merge (resolve)   *)
(* and useSlot's static-property attachment (compose).  The library's      *)
(* implementation is an npm dependency and is not part of the repository;  *)
(* the operators below are translated from the reference documentation     *)
(* (src/src/content/docs/use-styled.mdx and the usage pages) and, where    *)
(* the documentation is silent, from the design specification.             *)
(***************************************************************************)
EXTENDS Integers, Sequences, FiniteSets, TLC

VARIABLES config, callProps, merged, log, pc, units, composed, rendered

vars == <<config, callProps, merged, log, pc, units, composed, rendered>>

(***************************************************************************)
(* Bounds of the input space.                                              *)
(***************************************************************************)
MaxCompound == 2
MaxInvocations == 1
MaxClasses == 2
MaxUnits == 4

(***************************************************************************)
(* Prop values.  A prop bag is a function from prop names to values; a     *)
(* value carries its kind so that values of different kinds can be told    *)
(* apart: plain data, a class-name string (the sequence of its classes),   *)
(* a style object, or a function (the sequence of the functions one        *)
(* invocation calls: a single function for a function written in the       *)
(* configuration or passed by the caller).                                 *)
(***************************************************************************)
Plain(s) == [kind |-> "plain", v |-> s]

ClassName(cs) == [kind |-> "class", classes |-> cs]

Style(m) == [kind |-> "style", map |-> m]

Fn(id) == [kind |-> "fn", calls |-> <<id>>]

EmptyBag == [n \in {} |-> Plain("")]

IsFn(v) == v.kind = "fn"

\* A utility class is <<group, value>>: px-2 is <<"px", "2">>.
Group(c) == c[1]

(***************************************************************************)
(* className: clsx joins the class strings in order, tailwind-merge then   *)
(* resolves conflicts between utility classes, the later class winning.    *)
(***************************************************************************)
\* Mutant: a class already seen in an earlier value is dropped from the
\* later one before the strings are combined.
RECURSIVE clsxDropRepeated(_)
clsxDropRepeated(vals) ==
  IF vals = <<>> THEN <<>>
  ELSE LET n == Len(vals)
           front == clsxDropRepeated(SubSeq(vals, 1, n - 1))
           seen == {front[i] : i \in 1..Len(front)}
       IN  front \o SelectSeq(vals[n].classes, LAMBDA c : c \notin seen)

RECURSIVE clsx(_)
clsx(vals) ==
  IF vals = <<>> THEN <<>> ELSE Head(vals).classes \o clsx(Tail(vals))

\* Mutant: of two conflicting classes the earlier one is kept.
RECURSIVE twMergeKeepFirst(_)
twMergeKeepFirst(cs) ==
  IF cs = <<>> THEN <<>>
  ELSE LET n == Len(cs)
           l == cs[n]
           f == SubSeq(cs, 1, n - 1)
       IN  IF \E j \in 1..Len(f) : Group(f[j]) = Group(l)
           THEN twMergeKeepFirst(f)
           ELSE twMergeKeepFirst(f) \o <<l>>

RECURSIVE twMerge(_)
twMerge(cs) ==
  IF cs = <<>> THEN <<>>
  ELSE LET h == Head(cs)
           t == Tail(cs)
       IN  IF \E j \in 1..Len(t) : Group(t[j]) = Group(h)
           THEN twMerge(t)
           ELSE <<h>> \o twMerge(t)

MergeClassName(vals) == ClassName(twMerge(clsx(vals)))

(***************************************************************************)
(* style: shallow merge, later objects' keys overwrite earlier ones.       *)
(***************************************************************************)
RECURSIVE ShallowMerge(_)
ShallowMerge(vals) ==
  IF vals = <<>> THEN [k \in {} |-> ""]
  ELSE LET n == Len(vals)
           last == vals[n].map
           rest == ShallowMerge(SubSeq(vals, 1, n - 1))
       IN  [k \in DOMAIN rest \cup DOMAIN last |->
              IF k \in DOMAIN last THEN last[k] ELSE rest[k]]

\* Mutant: the last style object replaces the earlier ones.
ReplaceStyle(vals) == vals[Len(vals)]

MergeStyle(vals) == Style(ShallowMerge(vals))

(***************************************************************************)
(* Functions compose: the merged prop calls every layer's function, in     *)
(* layer order.                                                            *)
(***************************************************************************)
RECURSIVE ComposeCalls(_)
ComposeCalls(vals) ==
  IF vals = <<>> THEN <<>> ELSE Head(vals).calls \o ComposeCalls(Tail(vals))

\* Mutant: a later layer's function overwrites the earlier ones.
OverwriteFunctions(vals) == vals[Len(vals)]

ComposeFunctions(vals) == [kind |-> "fn", calls |-> ComposeCalls(vals)]

\* Mutant: the first bag to define a prop wins.
FirstWins(vals) == vals[1]

\* Every other prop: the last bag to define it wins.
LastWins(vals) == vals[Len(vals)]

(***************************************************************************)
(* Variant resolution.                                                     *)
(***************************************************************************)
VariantNamesOf(cfg) == DOMAIN cfg.variants

HasEffective(cfg, props, name) ==
  name \in DOMAIN props \/ name \in DOMAIN cfg.defaultVariants

\* Mutant: the default is preferred to the value the caller passes.
DefaultFirstValue(cfg, props, name) ==
  IF name \in DOMAIN cfg.defaultVariants THEN cfg.defaultVariants[name]
  ELSE props[name].v

EffectiveValue(cfg, props, name) ==
  IF name \in DOMAIN props THEN props[name].v ELSE cfg.defaultVariants[name]

\* Mutant: a value with no entry falls back to some registered value's bag.
RECURSIVE VariantBagsWithFallback(_, _, _)
VariantBagsWithFallback(cfg, props, order) ==
  IF order = <<>> THEN <<>>
  ELSE LET name == Head(order)
           rest == VariantBagsWithFallback(cfg, props, Tail(order))
           registered == DOMAIN cfg.variants[name]
       IN  IF HasEffective(cfg, props, name)
           THEN <<cfg.variants[name][
                    IF EffectiveValue(cfg, props, name) \in registered
                    THEN EffectiveValue(cfg, props, name)
                    ELSE CHOOSE v \in registered : TRUE]>> \o rest
           ELSE rest

\* Mutant: the variant names are walked from the last key to the first.
RECURSIVE VariantBagsReversed(_, _, _)
VariantBagsReversed(cfg, props, order) ==
  IF order = <<>> THEN <<>>
  ELSE LET n == Len(order)
           name == order[n]
           rest == VariantBagsReversed(cfg, props, SubSeq(order, 1, n - 1))
       IN  IF /\ HasEffective(cfg, props, name)
              /\ EffectiveValue(cfg, props, name) \in DOMAIN cfg.variants[name]
           THEN <<cfg.variants[name][EffectiveValue(cfg, props, name)]>> \o rest
           ELSE rest

\* Mutant: the bag of a value that was not selected is taken along with the
\* selected one.
RECURSIVE VariantBagsWithUnselected(_, _, _)
VariantBagsWithUnselected(cfg, props, order) ==
  IF order = <<>> THEN <<>>
  ELSE LET name == Head(order)
           rest == VariantBagsWithUnselected(cfg, props, Tail(order))
           registered == DOMAIN cfg.variants[name]
           others == registered \ {EffectiveValue(cfg, props, name)}
       IN  IF /\ HasEffective(cfg, props, name)
              /\ EffectiveValue(cfg, props, name) \in registered
           THEN (IF others = {} THEN <<>>
                 ELSE <<cfg.variants[name][CHOOSE v \in others : TRUE]>>)
                  \o <<cfg.variants[name][EffectiveValue(cfg, props, name)]>> \o rest
           ELSE rest

\* The prop bags of the active variants, in the key order of config.variants.
RECURSIVE VariantBags(_, _, _)
VariantBags(cfg, props, order) ==
  IF order = <<>> THEN <<>>
  ELSE LET name == Head(order)
           rest == VariantBags(cfg, props, Tail(order))
       IN  IF /\ HasEffective(cfg, props, name)
              /\ EffectiveValue(cfg, props, name) \in DOMAIN cfg.variants[name]
           THEN <<cfg.variants[name][EffectiveValue(cfg, props, name)]>> \o rest
           ELSE rest

\* Mutant: a condition on any name is compared with the props and defaults.
ConditionOnAnyName(cfg, name) == TRUE

\* A condition on a name that config.variants does not declare is never met.
ConditionDeclared(cfg, name) == name \in VariantNamesOf(cfg)

\* Mutant: one met condition is enough for a compound entry to apply.
AnyConditionMatches(cfg, props, entry) ==
  \E name \in DOMAIN entry.conds :
    /\ ConditionDeclared(cfg, name)
    /\ HasEffective(cfg, props, name)
    /\ EffectiveValue(cfg, props, name) = entry.conds[name]

\* A compound entry applies when all of its conditions are met.
CompoundMatches(cfg, props, entry) ==
  \A name \in DOMAIN entry.conds :
    /\ ConditionDeclared(cfg, name)
    /\ HasEffective(cfg, props, name)
    /\ EffectiveValue(cfg, props, name) = entry.conds[name]

\* Mutant: the matching entries are merged from the last declared to the first.
RECURSIVE CompoundBagsReversed(_, _, _)
CompoundBagsReversed(cfg, props, entries) ==
  IF entries = <<>> THEN <<>>
  ELSE LET rest == CompoundBagsReversed(cfg, props, Tail(entries))
       IN  IF CompoundMatches(cfg, props, Head(entries))
           THEN rest \o <<Head(entries).props>>
           ELSE rest

RECURSIVE CompoundBags(_, _, _)
CompoundBags(cfg, props, entries) ==
  IF entries = <<>> THEN <<>>
  ELSE LET rest == CompoundBags(cfg, props, Tail(entries))
       IN  IF CompoundMatches(cfg, props, Head(entries))
           THEN <<Head(entries).props>> \o rest
           ELSE rest

\* Mutant: names used by compoundVariants conditions are withheld as well.
RECURSIVE CondNames(_)
CondNames(entries) ==
  IF entries = <<>> THEN {}
  ELSE DOMAIN Head(entries).conds \cup CondNames(Tail(entries))

DirectPropsMinusCondNames(cfg, props) ==
  [n \in DOMAIN props \ (VariantNamesOf(cfg) \cup CondNames(cfg.compoundVariants)) |->
     props[n]]

\* Mutant: the variant props are forwarded with the rest.
DirectPropsWithVariants(cfg, props) == props

\* Prop forwarding: every call prop that is not a variant name of the config.
DirectProps(cfg, props) ==
  [n \in DOMAIN props \ VariantNamesOf(cfg) |-> props[n]]

\* Mutant: the props passed directly are spread first, the configuration after.
LayersDirectFirst(cfg, props) ==
  <<DirectProps(cfg, props), cfg.base>>
     \o VariantBags(cfg, props, cfg.order)
     \o CompoundBags(cfg, props, cfg.compoundVariants)

\* base, then variants, then compoundVariants, then the props passed directly.
Layers(cfg, props) ==
  <<cfg.base>> \o VariantBags(cfg, props, cfg.order)
               \o CompoundBags(cfg, props, cfg.compoundVariants)
               \o <<DirectProps(cfg, props)>>

RECURSIVE ValuesOf(_, _)
ValuesOf(layers, p) ==
  IF layers = <<>> THEN <<>>
  ELSE IF p \in DOMAIN Head(layers)
       THEN <<Head(layers)[p]>> \o ValuesOf(Tail(layers), p)
       ELSE ValuesOf(Tail(layers), p)

MergeProp(p, vals) ==
  IF p = "className" THEN MergeClassName(vals)
  ELSE IF p = "style" THEN MergeStyle(vals)
  ELSE IF \A i \in 1..Len(vals) : IsFn(vals[i]) THEN ComposeFunctions(vals)
  ELSE LastWins(vals)

MergeLayers(layers) ==
  [p \in UNION {DOMAIN layers[i] : i \in 1..Len(layers)} |->
     MergeProp(p, ValuesOf(layers, p))]

resolve(cfg, props) == MergeLayers(Layers(cfg, props))

(***************************************************************************)
(* The input space.  Every prop bag written in a configuration has an      *)
(* origin (its slot); the value a slot gives a prop is fixed by the slot,  *)
(* so that the layer a merged value came from can be read off the value.   *)
(* One configuration is drawn as follows: a focus prop that base and the   *)
(* call props may or may not define and that every variant bag and every   *)
(* compound entry defines; optionally a companion prop "id" in base and in *)
(* the call props; the set of declared variants; a default and a call-prop *)
(* selection per variant name; up to MaxCompound compound entries with     *)
(* distinct conditions.  A condition or a call prop may name a variant     *)
(* the configuration does not declare.                                     *)
(***************************************************************************)
VariantNames == {"size", "intent"}

VariantOrder == <<"size", "intent">>

VariantValues(name) == IF name = "size" THEN {"sm", "lg"} ELSE {"primary"}

\* Values a caller or defaultVariants may select; "xl" is registered nowhere.
SelectableValues(name) == IF name = "size" THEN {"sm", "lg", "xl"} ELSE {"primary"}

VariantSlot(name, value) ==
  IF name = "size" THEN (IF value = "sm" THEN "size.sm" ELSE "size.lg")
  ELSE "intent.primary"

CvSlots == <<"cv1", "cv2", "cv3">>

\* "size" is also a variant name: a prop bag may set a prop named like a
\* variant (the Icon component's variant icon sets the prop icon).
FocusProps == {"className", "style", "onPress", "type", "size"}

Args == {"e1", "e2"}

SlotClasses(slot) ==
  CASE slot = "base" -> << <<"px", "2">>, <<"rounded", "lg">> >>
    [] slot = "size.sm" -> << <<"px", "3">>, <<"py", "1">> >>
    [] slot = "size.lg" -> << <<"px", "2">>, <<"px", "6">> >>
    [] slot = "intent.primary" -> << <<"bg", "indigo-600">> >>
    [] slot = "cv1" -> << <<"bg", "indigo-400">>, <<"border", "1">> >>
    [] slot = "cv2" -> << <<"text", "indigo-600">> >>
    [] slot = "cv3" -> << <<"py", "3">> >>
    [] OTHER -> << <<"px", "2">>, <<"text", "red-500">> >>

SlotStyle(slot) ==
  CASE slot = "base" -> [borderWidth |-> "1", borderColor |-> "transparent"]
    [] slot = "size.sm" -> [padding |-> "4"]
    [] slot = "size.lg" -> [padding |-> "8", borderWidth |-> "2"]
    [] slot = "intent.primary" -> [borderColor |-> "indigo"]
    [] slot = "cv1" -> [borderWidth |-> "3"]
    [] slot = "cv2" -> [borderColor |-> "gray", margin |-> "0"]
    [] slot = "cv3" -> [padding |-> "12"]
    [] OTHER -> [borderColor |-> "red", margin |-> "4"]

SlotValue(slot, p) ==
  CASE p = "className" -> ClassName(SlotClasses(slot))
    [] p = "style" -> Style(SlotStyle(slot))
    [] p = "onPress" -> Fn(slot)
    [] OTHER -> Plain(slot)

SlotBag(slot, ps) == [p \in ps |-> SlotValue(slot, p)]

\* Conditions a compoundVariants entry may declare.
CondChoices ==
  { [n \in {"size"} |-> "lg"],
    [n \in {"intent"} |-> "primary"],
    [n \in {"size", "intent"} |-> IF n = "size" THEN "lg" ELSE "primary"] }

\* The sequences of at most n distinct elements of S.
RECURSIVE SeqsUpTo(_, _)
SeqsUpTo(S, n) ==
  IF n = 0 THEN {<<>>}
  ELSE LET shorter == SeqsUpTo(S, n - 1)
       IN  shorter \cup
             UNION {{Append(s, x) : x \in S \ {s[i] : i \in 1..Len(s)}} :
                      s \in {t \in shorter : Len(t) = n - 1}}

\* Partial selections of a value per name: the maps from a subset of names,
\* values[n] being the values name n may take.
Selections(names, values) ==
  UNION {{f \in [sub -> UNION {values[n] : n \in sub}] :
            \A n \in sub : f[n] \in values[n]} : sub \in SUBSET names}

DeclaredChoices == {{}, {"size"}, {"size", "intent"}}

MakeConfig(f, inBase, withId, declared, dflt, conds) ==
  [ base |-> SlotBag("base", (IF inBase THEN {f} ELSE {})
                              \cup (IF withId THEN {"id"} ELSE {})),
    variants |-> [name \in declared |->
                    [value \in VariantValues(name) |->
                       SlotBag(VariantSlot(name, value), {f})]],
    order |-> SelectSeq(VariantOrder, LAMBDA n : n \in declared),
    defaultVariants |-> dflt,
    compoundVariants |-> [i \in 1..Len(conds) |->
                            [conds |-> conds[i], props |-> SlotBag(CvSlots[i], {f})]] ]

MakeCallProps(f, inDirect, withId, sel) ==
  LET direct == SlotBag("direct", (IF inDirect THEN {f} ELSE {})
                                   \cup (IF withId THEN {"id"} ELSE {}))
  IN  [n \in DOMAIN direct \cup DOMAIN sel |->
         IF n \in DOMAIN sel THEN Plain(sel[n]) ELSE direct[n]]

(***************************************************************************)
(* A second input space for the className and style merge: one variant,    *)
(* one optional compound entry, and the className or style of base, of     *)
(* the variant bag and of the call props drawn freely (a className of at   *)
(* most MaxClasses distinct classes).                                      *)
(***************************************************************************)
ClassUniverse == { <<"px", "2">>, <<"px", "6">>, <<"text", "red-500">> }

StyleKeys == {"color", "margin"}

StyleValues(k) == {"1", "2"}

MergeKinds == {"className", "style", "onPress"}

MergeValues(kind, slot) ==
  CASE kind = "className" -> {ClassName(cs) : cs \in SeqsUpTo(ClassUniverse, MaxClasses)}
    [] kind = "style" -> {Style(m) : m \in Selections(StyleKeys, [k \in StyleKeys |-> StyleValues(k)])}
    [] OTHER -> {Fn(slot)}

MergeBags(kind, slot) ==
  {EmptyBag} \cup {[p \in {kind} |-> v] : v \in MergeValues(kind, slot)}

CompoundValue(kind) ==
  CASE kind = "className" -> ClassName(<< <<"px", "6">> >>)
    [] kind = "style" -> Style([color |-> "2"])
    [] OTHER -> Fn("cv1")

InitMerge ==
  \E kind \in MergeKinds, hasDefault \in BOOLEAN, hasCompound \in BOOLEAN :
    \E base \in MergeBags(kind, "base"), lg \in MergeBags(kind, "size.lg"),
       direct \in MergeBags(kind, "direct") :
      /\ config =
           [ base |-> base,
             variants |-> [name \in {"size"} |-> [value \in {"lg"} |-> lg]],
             order |-> <<"size">>,
             defaultVariants |-> IF hasDefault THEN [name \in {"size"} |-> "lg"]
                                 ELSE [name \in {} |-> ""],
             compoundVariants |->
               IF hasCompound
               THEN << [conds |-> [name \in {"size"} |-> "lg"],
                        props |-> [p \in {kind} |-> CompoundValue(kind)]] >>
               ELSE <<>> ]
      /\ callProps = direct
      /\ merged = EmptyBag
      /\ log = <<>>
      /\ pc = "defined"
      /\ units = <<>>
      /\ composed = <<>>
      /\ rendered = <<>>

(***************************************************************************)
(* The state machine: a styled component is defined with a configuration,  *)
(* rendered with the caller's props, and its merged handlers are invoked.  *)
(***************************************************************************)
Init ==
  \E f \in FocusProps, inBase \in BOOLEAN, inDirect \in BOOLEAN,
     withId \in BOOLEAN, declared \in DeclaredChoices :
    \E dflt \in Selections(declared, [n \in declared |-> SelectableValues(n)]),
       conds \in SeqsUpTo(CondChoices, MaxCompound),
       sel \in Selections(VariantNames, [n \in VariantNames |-> SelectableValues(n)]) :
      /\ config = MakeConfig(f, inBase, withId, declared, dflt, conds)
      /\ callProps = MakeCallProps(f, inDirect, withId, sel)
      /\ merged = EmptyBag
      /\ log = <<>>
      /\ pc = "defined"
      /\ units = <<>>
      /\ composed = <<>>
      /\ rendered = <<>>

\* Rendering the styled component resolves its props.
Render ==
  /\ pc = "defined"
  /\ merged' = resolve(config, callProps)
  /\ pc' = "rendered"
  /\ UNCHANGED <<config, callProps, log, units, composed, rendered>>

\* Calling a function value calls the functions it is composed of, in order.
CallsOf(fn, arg) == [i \in 1..Len(fn.calls) |-> <<fn.calls[i], arg>>]

\* The host invokes a handler of the rendered element.
Invoke(p, arg) ==
  /\ pc = "rendered"
  /\ Len(log) < MaxInvocations
  /\ p \in DOMAIN merged
  /\ IsFn(merged[p])
  /\ log' = Append(log, [prop |-> p, arg |-> arg, calls |-> CallsOf(merged[p], arg)])
  /\ UNCHANGED <<config, callProps, merged, pc, units, composed, rendered>>

Next ==
  \/ Render
  \/ \E p \in FocusProps, arg \in Args : Invoke(p, arg)

Spec == Init /\ [][Next]_vars

SpecMerge == InitMerge /\ [][Next]_vars

(***************************************************************************)
(* useSlot.  A unit is a renderable component: a styled unit renders its   *)
(* base component with the props resolved from its configuration; the unit *)
(* useSlot returns renders its root unit and carries the slot units as     *)
(* static properties.  Units are named by their position in units.         *)
(***************************************************************************)
SlotNames == {"Header", "Title"}

NoSlotMap == [n \in {} |-> 0]

NoConfig ==
  [ base |-> EmptyBag, variants |-> [n \in {} |-> EmptyBag], order |-> <<>>,
    defaultVariants |-> [n \in {} |-> ""], compoundVariants |-> <<>> ]

useStyled(cfg) == [root |-> 0, config |-> cfg, slots |-> NoSlotMap]

\* Mutant: the compound unit renders one of its slots instead of its root.
useSlotRendersSlot(root, slotMap) ==
  [ root |-> slotMap[CHOOSE n \in DOMAIN slotMap : TRUE],
    config |-> NoConfig, slots |-> slotMap ]

RECURSIVE StyledOf(_, _)
StyledOf(us, u) == IF us[u].root = 0 THEN u ELSE StyledOf(us, us[u].root)

\* Mutant: a slot is attached as its underlying styled unit, without sub-slots.
useSlotUnwrapped(root, slotMap) ==
  [ root |-> root, config |-> NoConfig,
    slots |-> [n \in DOMAIN slotMap |-> StyledOf(units, slotMap[n])] ]

useSlot(root, slotMap) == [root |-> root, config |-> NoConfig, slots |-> slotMap]

\* What rendering unit u with the given props hands to the base component.
RECURSIVE RenderOf(_, _, _)
RenderOf(us, u, props) ==
  IF us[u].root = 0 THEN resolve(us[u].config, props)
  ELSE RenderOf(us, us[u].root, props)

RootConfig ==
  MakeConfig("className", TRUE, TRUE, {"size"}, [n \in {"size"} |-> "lg"], <<>>)

PartConfig ==
  MakeConfig("type", TRUE, FALSE, {}, [n \in {} |-> ""], <<>>)

SlotCallProps ==
  { MakeCallProps("className", TRUE, FALSE, [n \in {} |-> ""]),
    MakeCallProps("type", FALSE, TRUE, [n \in {"size"} |-> "sm"]) }

\* The slot maps of a useSlot call on root: units other than the root itself.
SlotMaps(n, root) ==
  UNION {[names -> (1..n) \ {root}] : names \in SUBSET SlotNames \ {{}}}

InitSlot ==
  /\ units = <<useStyled(RootConfig), useStyled(PartConfig)>>
  /\ composed = <<>>
  /\ rendered = <<>>
  /\ config = NoConfig
  /\ callProps = EmptyBag
  /\ merged = EmptyBag
  /\ log = <<>>
  /\ pc = "slots"

\* const X = useSlot(Root, { Name: Unit, ... })
UseSlot(root, slotMap) ==
  /\ Len(units) < MaxUnits
  /\ units' = Append(units, useSlot(root, slotMap))
  /\ composed' = Append(composed,
                        [unit |-> Len(units) + 1, root |-> root, slots |-> slotMap])
  /\ UNCHANGED <<config, callProps, merged, log, pc, rendered>>

\* <X {...props} />
RenderUnit(u, props) ==
  /\ rendered' = <<[unit |-> u, props |-> props, out |-> RenderOf(units, u, props)]>>
  /\ UNCHANGED <<config, callProps, merged, log, pc, units, composed>>

NextSlot ==
  \/ \E root \in 1..Len(units) :
       \E slotMap \in SlotMaps(Len(units), root) : UseSlot(root, slotMap)
  \/ \E u \in 1..Len(units), props \in SlotCallProps : RenderUnit(u, props)

SpecSlot == InitSlot /\ [][NextSlot]_vars

(***************************************************************************)
(* What the documentation promises of a rendered component, stated on the  *)
(* configuration and the call props themselves.                            *)
(***************************************************************************)
Declared == DOMAIN config.variants

\* The value selected for a name: the caller's, else the default, else none.
Chosen(n) ==
  IF n \in DOMAIN callProps THEN callProps[n].v
  ELSE IF n \in DOMAIN config.defaultVariants THEN config.defaultVariants[n]
  ELSE "none"

IsActive(n) == n \in Declared /\ Chosen(n) \in DOMAIN config.variants[n]

EntryMatches(i) ==
  \A n \in DOMAIN config.compoundVariants[i].conds :
    n \in Declared /\ Chosen(n) = config.compoundVariants[i].conds[n]

PassThrough == [n \in DOMAIN callProps \ Declared |-> callProps[n]]

ActiveNames == SelectSeq(config.order, IsActive)

MatchingEntries ==
  SelectSeq([i \in 1..Len(config.compoundVariants) |-> i], EntryMatches)

\* The bags the documentation says are merged, lowest precedence first.
ExpectedBags ==
  <<config.base>>
    \o [k \in 1..Len(ActiveNames) |->
          config.variants[ActiveNames[k]][Chosen(ActiveNames[k])]]
    \o [k \in 1..Len(MatchingEntries) |->
          config.compoundVariants[MatchingEntries[k]].props]
    \o <<PassThrough>>

Defining(p) == SelectSeq(ExpectedBags, LAMBDA b : p \in DOMAIN b)

AllPropNames ==
  UNION {DOMAIN ExpectedBags[i] : i \in 1..Len(ExpectedBags)}

\* Neither className nor style nor function-valued in any layer.
IsPlainProp(p) ==
  /\ p \notin {"className", "style"}
  /\ LET defs == Defining(p)
     IN  \A i \in 1..Len(defs) : ~IsFn(defs[i][p])

InLayers(bag) ==
  LET layers == Layers(config, callProps)
  IN  \E k \in 1..Len(layers) : layers[k] = bag

Calls(p, id) ==
  /\ p \in DOMAIN merged
  /\ IsFn(merged[p])
  /\ \E j \in 1..Len(merged[p].calls) : merged[p].calls[j] = id

\* C1: a prop that is neither className, style nor a function takes the value
\* of the last bag defining it in the order base, active variants, matching
\* compound variants, direct props; a direct prop always wins.
C1_LastDefinerWins ==
  pc = "rendered" =>
    \A p \in AllPropNames \cup DOMAIN merged :
      IsPlainProp(p) =>
        /\ p \in DOMAIN merged
        /\ Defining(p) # <<>>
        /\ merged[p] = Defining(p)[Len(Defining(p))][p]
        /\ (p \in DOMAIN PassThrough => merged[p] = callProps[p])

C1_Witness ==
  /\ pc = "rendered"
  /\ "type" \in DOMAIN config.base
  /\ Len(ActiveNames) = 2
  /\ Len(MatchingEntries) = 2
  /\ "type" \in DOMAIN PassThrough
  /\ merged["type"] = Plain("direct")

\* C2: one invocation of a merged function prop calls the function of every
\* layer that defines it exactly once, with the invocation's argument, in the
\* order base, variants, compound variants, direct prop.
C2_FunctionsCompose ==
  \A k \in 1..Len(log) :
    LET e == log[k]
        defs == Defining(e.prop)
    IN  /\ Len(e.calls) = Len(defs)
        /\ \A i \in 1..Len(defs) : e.calls[i] = <<defs[i][e.prop].calls[1], e.arg>>
        /\ \A i, j \in 1..Len(e.calls) : i # j => e.calls[i] # e.calls[j]

C2_Witness ==
  /\ Len(log) = 1
  /\ log[1].calls = << <<"base", "e2">>, <<"size.lg", "e2">>,
                       <<"cv1", "e2">>, <<"direct", "e2">> >>

\* C3: for every declared variant the merged bag is the one registered under
\* the call-prop value when the call props define the name, and otherwise the
\* one under the default; no other bag of that variant is merged.
C3_CallPropOverridesDefault ==
  pc = "rendered" =>
    \A n \in Declared : \A v \in DOMAIN config.variants[n] :
      LET bag == config.variants[n][v]
          selected == IF n \in DOMAIN callProps THEN v = callProps[n].v
                      ELSE /\ n \in DOMAIN config.defaultVariants
                           /\ v = config.defaultVariants[n]
      IN  /\ InLayers(bag) <=> selected
          /\ \A p \in DOMAIN bag :
               IsFn(bag[p]) => (Calls(p, bag[p].calls[1]) <=> selected)

C3_Witness ==
  /\ pc = "rendered"
  /\ Declared = {"size", "intent"}
  /\ "size" \in DOMAIN callProps /\ callProps["size"].v = "lg"
  /\ "size" \in DOMAIN config.defaultVariants /\ config.defaultVariants["size"] = "sm"
  /\ "intent" \notin DOMAIN callProps
  /\ "intent" \in DOMAIN config.defaultVariants
  /\ Calls("onPress", "size.lg")
  /\ ~Calls("onPress", "size.sm")
  /\ Calls("onPress", "intent.primary")

\* C4: a compoundVariants entry's bag is merged if and only if every condition
\* it declares equals the effective value of that variant.
C4_CompoundIffAllMatch ==
  pc = "rendered" =>
    \A i \in 1..Len(config.compoundVariants) :
      LET bag == config.compoundVariants[i].props
      IN  /\ InLayers(bag) <=> EntryMatches(i)
          /\ \A p \in DOMAIN bag :
               IsFn(bag[p]) => (Calls(p, bag[p].calls[1]) <=> EntryMatches(i))

C4_Witness ==
  /\ pc = "rendered"
  /\ Len(config.compoundVariants) = 2
  /\ DOMAIN config.compoundVariants[1].conds = {"size", "intent"}
  /\ DOMAIN config.compoundVariants[2].conds = {"intent"}
  /\ Chosen("size") = "lg"
  /\ IsActive("size")
  /\ Chosen("intent") = "none"
  /\ "onPress" \in DOMAIN merged
  /\ ~Calls("onPress", "cv1")
  /\ ~Calls("onPress", "cv2")

\* C5: every call prop whose name is not a declared variant name is in the
\* resolved props, and unless it is className, style or a function it carries
\* exactly the value passed.
C5_PropsForwarded ==
  pc = "rendered" =>
    \A p \in DOMAIN callProps \ Declared :
      /\ p \in DOMAIN merged
      /\ (p \notin {"className", "style"} /\ ~IsFn(callProps[p])
            => merged[p] = callProps[p])

C5_Witness ==
  /\ pc = "rendered"
  /\ Declared = {"size"}
  /\ {"id", "intent", "size", "type"} \subseteq DOMAIN callProps
  /\ Len(config.compoundVariants) > 0
  /\ "id" \in DOMAIN config.base
  /\ merged["id"] = Plain("direct")
  /\ merged["intent"] = Plain("primary")
  /\ "size" \notin DOMAIN merged

NoVariantConfig == Declared = {} /\ config.compoundVariants = <<>>

ClassesOf(v) == {v.classes[i] : i \in 1..Len(v.classes)}

\* The last class of every utility group of a className value.
LastOfGroups(v) ==
  {v.classes[i] : i \in {j \in 1..Len(v.classes) :
      \A k \in (j + 1)..Len(v.classes) : Group(v.classes[k]) # Group(v.classes[j])}}

\* C8 as stated: without variants and compoundVariants the resolved props have
\* the keys of base and of the call props, and on every conflicting key that is
\* not a function the call prop's value is the result.
C8_CallPropValueWins ==
  (pc = "rendered" /\ NoVariantConfig) =>
    /\ DOMAIN merged = DOMAIN config.base \cup DOMAIN callProps
    /\ \A p \in DOMAIN config.base \cap DOMAIN callProps :
         ~IsFn(callProps[p]) => merged[p] = callProps[p]

\* C8 amended: the keys are those of base and of the call props; a key of one
\* side only keeps its value; on a conflicting key that is neither className,
\* style nor a function the call prop's value wins; a conflicting className
\* keeps base's classes except those of a utility group the call prop uses
\* and the call prop's last class of each group; a conflicting style keeps
\* base's keys except those the call prop sets.
C8_BaseMergedWithCallProps ==
  (pc = "rendered" /\ NoVariantConfig) =>
    /\ DOMAIN merged = DOMAIN config.base \cup DOMAIN callProps
    /\ \A p \in DOMAIN config.base \cap DOMAIN callProps :
         LET b == config.base[p]
             c == callProps[p]
         IN  CASE p = "className" ->
                    ClassesOf(merged[p]) =
                      LastOfGroups(c) \cup
                        {x \in LastOfGroups(b) :
                           \A y \in ClassesOf(c) : Group(y) # Group(x)}
               [] p = "style" ->
                    /\ DOMAIN merged[p].map = DOMAIN b.map \cup DOMAIN c.map
                    /\ \A k \in DOMAIN merged[p].map :
                         merged[p].map[k] = IF k \in DOMAIN c.map THEN c.map[k]
                                            ELSE b.map[k]
               [] OTHER -> IsFn(c) \/ merged[p] = c
    /\ \A p \in DOMAIN callProps \ DOMAIN config.base :
         p \notin {"className", "style"} => merged[p] = callProps[p]
    /\ \A p \in DOMAIN config.base \ DOMAIN callProps :
         p \notin {"className", "style"} => merged[p] = config.base[p]

C8_Witness ==
  /\ pc = "rendered"
  /\ NoVariantConfig
  /\ DOMAIN config.base = {"className", "id"}
  /\ DOMAIN callProps = {"className", "id", "size"}
  /\ merged["id"] = Plain("direct")
  /\ merged["className"] =
       ClassName(<< <<"rounded", "lg">>, <<"px", "2">>, <<"text", "red-500">> >>)

(***************************************************************************)
(* className and style, stated on the positions of the merged layers.      *)
(***************************************************************************)
ClassPositions ==
  {<<i, j>> : i \in 1..Len(Defining("className")), j \in 1..MaxClasses + 1} \cap
  UNION {{<<i, j>> : j \in 1..Len(Defining("className")[i]["className"].classes)} :
           i \in 1..Len(Defining("className"))}

ClassAt(pos) == Defining("className")[pos[1]]["className"].classes[pos[2]]

DeclaredLater(a, b) == a[1] < b[1] \/ (a[1] = b[1] /\ a[2] < b[2])

IsLastOfGroup(pos) ==
  \A q \in ClassPositions :
    Group(ClassAt(q)) = Group(ClassAt(pos)) => ~DeclaredLater(pos, q)

HasNoCounterpart(pos) ==
  \A q \in ClassPositions :
    Group(ClassAt(q)) = Group(ClassAt(pos)) => ClassAt(q) = ClassAt(pos)

Occurrences(cs, c) == Cardinality({i \in 1..Len(cs) : cs[i] = c})

\* C6: the resolved className holds every class of a merged layer that has no
\* conflicting counterpart, once; of the classes of one utility group it holds
\* the last-declared one only, the direct className being declared last; and
\* it holds nothing else.
C6_ClassNameMerge ==
  (pc = "rendered" /\ Defining("className") # <<>>) =>
    /\ "className" \in DOMAIN merged
    /\ LET res == merged["className"].classes
       IN  /\ \A pos \in ClassPositions :
                HasNoCounterpart(pos) => Occurrences(res, ClassAt(pos)) = 1
           /\ \A pos \in ClassPositions :
                IsLastOfGroup(pos) =>
                  /\ Occurrences(res, ClassAt(pos)) = 1
                  /\ \A i \in 1..Len(res) :
                       Group(res[i]) = Group(ClassAt(pos)) => res[i] = ClassAt(pos)
           /\ \A i \in 1..Len(res) :
                \E pos \in ClassPositions : IsLastOfGroup(pos) /\ res[i] = ClassAt(pos)

C6_Witness ==
  /\ pc = "rendered"
  /\ Len(Defining("className")) = 4
  /\ config.base["className"].classes = << <<"px", "2">>, <<"text", "red-500">> >>
  /\ config.variants["size"]["lg"]["className"].classes = << <<"px", "2">>, <<"px", "6">> >>
  /\ callProps["className"].classes = << <<"text", "red-500">> >>
  /\ merged["className"].classes = << <<"px", "6">>, <<"text", "red-500">> >>

StyleLayers == Defining("style")

LastSetting(k) ==
  CHOOSE i \in 1..Len(StyleLayers) :
    /\ k \in DOMAIN StyleLayers[i]["style"].map
    /\ \A j \in (i + 1)..Len(StyleLayers) : k \notin DOMAIN StyleLayers[j]["style"].map

\* C7: the resolved style has every key of every merged layer's style, a key
\* set by several layers takes the latest layer's value in the order base,
\* variants, compound variants, direct style; a directly passed key wins.
C7_StyleShallowMerge ==
  (pc = "rendered" /\ StyleLayers # <<>>) =>
    /\ "style" \in DOMAIN merged
    /\ DOMAIN merged["style"].map =
         UNION {DOMAIN StyleLayers[i]["style"].map : i \in 1..Len(StyleLayers)}
    /\ \A k \in DOMAIN merged["style"].map :
         merged["style"].map[k] = StyleLayers[LastSetting(k)]["style"].map[k]
    /\ "style" \in DOMAIN PassThrough =>
         \A k \in DOMAIN callProps["style"].map :
           merged["style"].map[k] = callProps["style"].map[k]

C7_Witness ==
  /\ pc = "rendered"
  /\ Len(StyleLayers) = 4
  /\ config.base["style"].map = [color |-> "1", margin |-> "1"]
  /\ config.variants["size"]["lg"]["style"].map = [margin |-> "2"]
  /\ callProps["style"].map = [color |-> "1"]
  /\ merged["style"].map = [color |-> "1", margin |-> "2"]

(***************************************************************************)
(* useSlot, stated on the record of the useSlot calls made.                *)
(***************************************************************************)
\* C9: the unit X returned by useSlot(root, slotMap) has X.<Name> identical to
\* the slot map's unit for every slot name, and rendering X with any props
\* gives what rendering root with the same props gives.
C9_ComposeKeepsRootAndSlots ==
  \A k \in 1..Len(composed) :
    LET c == composed[k]
    IN  /\ DOMAIN c.slots \subseteq DOMAIN units[c.unit].slots
        /\ \A name \in DOMAIN c.slots : units[c.unit].slots[name] = c.slots[name]
        /\ \A props \in SlotCallProps :
             RenderOf(units, c.unit, props) = RenderOf(units, c.root, props)
        /\ (rendered # <<>> /\ rendered[1].unit = c.unit) =>
             rendered[1].out = resolve(units[StyledOf(units, c.root)].config,
                                       rendered[1].props)

C9_Witness ==
  /\ Len(composed) = 1
  /\ composed[1].root = 1
  /\ composed[1].slots = [n \in {"Header"} |-> 2]
  /\ units[3].slots["Header"] = 2
  /\ rendered # <<>>
  /\ rendered[1].unit = 3
  /\ "size" \in DOMAIN rendered[1].props
  /\ rendered[1].out = resolve(RootConfig, rendered[1].props)
  /\ rendered[1].out # resolve(PartConfig, rendered[1].props)

\* C10: when a slot value is itself a unit returned by useSlot, the outer unit
\* exposes it with its sub-slots: Compound.Part.SubPart is the unit given as
\* SubPart to the inner useSlot call.
C10_NestedSlotsIntact ==
  \A k1, k2 \in 1..Len(composed) :
    LET inner == composed[k1]
        outer == composed[k2]
    IN  \A part \in DOMAIN outer.slots :
          outer.slots[part] = inner.unit =>
            \A sub \in DOMAIN inner.slots :
              /\ part \in DOMAIN units[outer.unit].slots
              /\ sub \in DOMAIN units[units[outer.unit].slots[part]].slots
              /\ units[units[outer.unit].slots[part]].slots[sub] = inner.slots[sub]

C10_Witness ==
  /\ Len(composed) = 2
  /\ composed[1] = [unit |-> 3, root |-> 1, slots |-> [n \in {"Title"} |-> 2]]
  /\ composed[2] = [unit |-> 4, root |-> 2, slots |-> [n \in {"Header"} |-> 3]]
  /\ units[units[4].slots["Header"]].slots["Title"] = 2

(***************************************************************************)
(* Variant names in the resolved props.                                    *)
(***************************************************************************)
\* C11 as stated: the resolved props have no key that is a variant name
\* declared in config.variants.
C11_NoVariantNameKeys ==
  pc = "rendered" => DOMAIN merged \cap Declared = {}

\* C11 amended: the call-prop value of a declared variant is never forwarded;
\* a declared variant name is a key of the resolved props exactly when base,
\* an active variant bag or a matching compound entry sets a prop of that
\* name, and then it carries the value of the last of these bags.
C11_VariantSelectionNotForwarded ==
  pc = "rendered" =>
    \A n \in Declared :
      LET bags == SubSeq(ExpectedBags, 1, Len(ExpectedBags) - 1)
          defs == SelectSeq(bags, LAMBDA b : n \in DOMAIN b)
      IN  /\ n \in DOMAIN merged <=> defs # <<>>
          /\ defs # <<>> => merged[n] = defs[Len(defs)][n]

C11_Witness ==
  /\ pc = "rendered"
  /\ "size" \in Declared
  /\ "size" \in DOMAIN callProps
  /\ callProps["size"] = Plain("lg")
  /\ "size" \notin DOMAIN config.base
  /\ MatchingEntries = <<>>
  /\ "size" \in DOMAIN merged
  /\ merged["size"] = Plain("size.lg")

(***************************************************************************)
(* A selected value that config.variants[name] has no entry for.           *)
(***************************************************************************)
Unregistered(n) ==
  /\ n \in Declared
  /\ Chosen(n) # "none"
  /\ Chosen(n) \notin DOMAIN config.variants[n]

Without(f, n) == [m \in DOMAIN f \ {n} |-> f[m]]

\* C12: when the effective value of a variant, from the call props or from
\* defaultVariants, has no entry in config.variants[name], resolve still
\* returns a result; no bag of that variant is merged, and the result is the
\* merge of base, the other active variants, the matching compound entries
\* and the direct props, the same as if the variant had not been selected.
C12_UnregisteredValueContributesNothing ==
  pc = "rendered" =>
    \A n \in Declared :
      Unregistered(n) =>
        /\ \A v \in DOMAIN config.variants[n] : ~InLayers(config.variants[n][v])
        /\ merged = MergeLayers(ExpectedBags)
        /\ merged = resolve([config EXCEPT !.defaultVariants = Without(@, n)],
                            Without(callProps, n))

C12_Witness ==
  /\ pc = "rendered"
  /\ Declared = {"size", "intent"}
  /\ "size" \notin DOMAIN callProps
  /\ Chosen("size") = "xl"
  /\ IsActive("intent")
  /\ "onPress" \in DOMAIN config.base
  /\ "onPress" \in DOMAIN callProps
  /\ merged["onPress"].calls = <<"base", "intent.primary", "cv1", "direct">>

(***************************************************************************)
(* The scenario base 'px-2', size.lg 'px-2 px-6' selected by default, and  *)
(* the call's className 'px-2 text-red-500'.                               *)
(***************************************************************************)
Px2 == <<"px", "2">>
Px6 == <<"px", "6">>
TextRed500 == <<"text", "red-500">>

PaddingScenario ==
  /\ pc = "rendered"
  /\ config.base = [p \in {"className"} |-> ClassName(<<Px2>>)]
  /\ config.variants = [name \in {"size"} |->
                          [value \in {"lg"} |->
                             [p \in {"className"} |-> ClassName(<<Px2, Px6>>)]]]
  /\ config.defaultVariants = [name \in {"size"} |-> "lg"]
  /\ config.compoundVariants = <<>>
  /\ callProps = [p \in {"className"} |-> ClassName(<<Px2, TextRed500>>)]

\* C13 as stated: in the scenario the resolved className contains px-6,
\* contains text-red-500, and contains exactly one px-* utility.
C13_ScenarioKeepsPx6 ==
  PaddingScenario =>
    LET cs == merged["className"].classes
    IN  /\ \E i \in 1..Len(cs) : cs[i] = Px6
        /\ \E i \in 1..Len(cs) : cs[i] = TextRed500
        /\ Cardinality({i \in 1..Len(cs) : Group(cs[i]) = "px"}) = 1

\* C13 amended: in the scenario the resolved className is px-2 text-red-500:
\* it contains text-red-500 and exactly one px-* utility, which is the px-2
\* of the call props (the last declared); px-6 is not in it.
C13_ScenarioKeepsCallPropPx2 ==
  PaddingScenario =>
    LET cs == merged["className"].classes
    IN  /\ \E i \in 1..Len(cs) : cs[i] = TextRed500
        /\ {i \in 1..Len(cs) : Group(cs[i]) = "px"} # {}
        /\ \A i \in 1..Len(cs) : Group(cs[i]) = "px" => cs[i] = Px2
        /\ Cardinality({i \in 1..Len(cs) : Group(cs[i]) = "px"}) = 1
        /\ \A i \in 1..Len(cs) : cs[i] # Px6

C13_Witness ==
  /\ PaddingScenario
  /\ merged = [p \in {"className"} |-> ClassName(<<Px2, TextRed500>>)]

(***************************************************************************)
(* The same configuration with its variant names iterated in another       *)
(* order.                                                                  *)
(***************************************************************************)
Orders ==
  {o \in SeqsUpTo(Declared, Cardinality(Declared)) : Len(o) = Len(config.order)}

Reordered(o) == resolve([config EXCEPT !.order = o], callProps)

\* The active variants whose bag sets prop p, in the iteration order o.
ActiveDefiners(o, p) ==
  SelectSeq(o, LAMBDA n : IsActive(n) /\ p \in DOMAIN config.variants[n][Chosen(n)])

SetAfterVariants(p) ==
  \/ p \in DOMAIN PassThrough
  \/ \E k \in 1..Len(MatchingEntries) :
       p \in DOMAIN config.compoundVariants[MatchingEntries[k]].props

CompoundSetters(p) ==
  SelectSeq(MatchingEntries, LAMBDA i : p \in DOMAIN config.compoundVariants[i].props)

CompoundValueOf(p, k) == config.compoundVariants[CompoundSetters(p)[k]].props[p]

\* The functions the matching compound entries give for p.
CompoundCalls(p) ==
  {CompoundValueOf(p, k).calls[1] : k \in 1..Len(CompoundSetters(p))}

NamesUndeclared(i) ==
  \E n \in DOMAIN config.compoundVariants[i].conds : n \notin Declared

WithoutEntry(i) ==
  [config EXCEPT !.compoundVariants =
     SubSeq(@, 1, i - 1) \o SubSeq(@, i + 1, Len(@))]

\* C16: a compoundVariants entry with a condition on a name that
\* config.variants does not declare is never applied, also when the call
\* props carry that name with the required value, and it is not rejected:
\* the result is the one of the same configuration without the entry.
C16_UndeclaredConditionNeverMet ==
  pc = "rendered" =>
    \A i \in 1..Len(config.compoundVariants) :
      NamesUndeclared(i) =>
        /\ ~InLayers(config.compoundVariants[i].props)
        /\ merged = resolve(WithoutEntry(i), callProps)

C16_Witness ==
  /\ pc = "rendered"
  /\ Declared = {"size"}
  /\ Len(config.compoundVariants) = 2
  /\ config.compoundVariants[1].conds = [n \in {"intent"} |-> "primary"]
  /\ EntryMatches(2)
  /\ "intent" \in DOMAIN callProps
  /\ callProps["intent"] = Plain("primary")
  /\ "intent" \in DOMAIN merged
  /\ "onPress" \in DOMAIN merged
  /\ merged["onPress"].calls = <<"size.lg", "cv2">>

(***************************************************************************)
(* The functions one invocation may call: those of base, of the selected   *)
(* value of each active variant, of the matching compound entries and of   *)
(* the direct prop.                                                        *)
(***************************************************************************)
FnOf(bag, p) == IF p \in DOMAIN bag /\ IsFn(bag[p]) THEN {bag[p].calls[1]} ELSE {}

SelectedFns(p) ==
  UNION {FnOf(ExpectedBags[i], p) : i \in 1..Len(ExpectedBags)}

UnselectedFns(p) ==
  UNION ({UNION {FnOf(config.variants[n][v], p) :
                   v \in {w \in VariantValues(n) : w # Chosen(n)}} : n \in Declared}
         \cup {FnOf(config.compoundVariants[i].props, p) :
                 i \in {j \in 1..Len(config.compoundVariants) : ~EntryMatches(j)}})

\* C17: an invocation of a merged function prop calls no function of a
\* variant value that is not the effective one, and none of a compound entry
\* that does not match; every function it calls is one of base, of a selected
\* variant value, of a matching compound entry or of the direct prop.
C17_OnlySelectedFunctionsCalled ==
  \A k \in 1..Len(log) :
    LET called == {log[k].calls[j][1] : j \in 1..Len(log[k].calls)}
    IN  /\ called \cap UnselectedFns(log[k].prop) = {}
        /\ called \subseteq SelectedFns(log[k].prop)

C17_Witness ==
  /\ Len(log) = 1
  /\ Declared = {"size", "intent"}
  /\ Chosen("size") = "sm"
  /\ "size" \in DOMAIN config.defaultVariants
  /\ config.defaultVariants["size"] = "lg"
  /\ Len(config.compoundVariants) = 2
  /\ ~EntryMatches(1)
  /\ EntryMatches(2)
  /\ UnselectedFns("onPress") = {"size.lg", "cv1"}
  /\ log[1].calls = << <<"base", "e1">>, <<"size.sm", "e1">>,
                       <<"intent.primary", "e1">>, <<"cv2", "e1">>,
                       <<"direct", "e1">> >>

====
